---- MODULE Spec2Model ----
(***************************************************************************)
(* Model of perf_curves.py: the binary classification curve engine         *)
(* (_binary_clf_curve), the pseudo-point corrector (add_pseudo_points),    *)
(* the ROC / recall-precision / precision-recall-gain derivers and the     *)
(* trapezoidal area estimator.                                             *)
(*                                                                         *)
(* Numbers.  Scores and weights are small integers, for which the double   *)
(* arithmetic of the counts is exact.  A finite value is a polynomial in   *)
(* EPSILON with integer coefficients, <<c0, c1, c2, ...>> standing for     *)
(* c0 + c1*EPSILON + c2*EPSILON^2 + ..., without trailing zeros (so 0 is   *)
(* <<>> and the integer 3 is <<3>>).  EPSILON = 1e-10 and the coefficients *)
(* of the model stay far below 1e9, so the sign of a value is the sign of  *)
(* its lowest-order non-zero coefficient.  The result of a division is an  *)
(* extended value: a fraction of two polynomials, +inf, -inf or nan, with  *)
(* IEEE-754 rules for the special values.  Rounding of doubles is not      *)
(* modelled.                                                               *)
(***************************************************************************)
EXTENDS Integers, Sequences, FiniteSets, TLC

VARIABLES y_true, y_score, sample_weight, pc, res, mem

vars == <<y_true, y_score, sample_weight, pc, res, mem>>

(* ------------------------------ bounds --------------------------------- *)
MaxN == 3
MaxScore == 2
MaxW == 2
MaxCols == 2
MaxCount == 2
MaxRows == 2

(* ------------------------- integer helpers ----------------------------- *)
Max(a, b) == IF a >= b THEN a ELSE b

\* The sequence with the elements of f, built once (a function constructor
\* alone is evaluated anew at every application).
seq(f) == f \o <<>>

Abs(a) == IF a < 0 THEN -a ELSE a

RECURSIVE Gcd(_, _)
Gcd(a, b) == IF b = 0 THEN Abs(a) ELSE Gcd(b, a % Abs(b))

RECURSIVE GcdSeq(_)
GcdSeq(s) == IF s = <<>> THEN 0 ELSE Gcd(Head(s), GcdSeq(Tail(s)))

(* ------------------- finite values: polynomials in EPSILON -------------- *)
RECURSIVE Trim(_)
Trim(p) ==
    IF p = <<>> THEN <<>>
    ELSE IF p[Len(p)] = 0 THEN Trim(SubSeq(p, 1, Len(p) - 1)) ELSE p

Coef(p, k) == IF k >= 1 /\ k <= Len(p) THEN p[k] ELSE 0

Flt(n) == Trim(<<n>>)

FAdd(a, b) == Trim(seq([k \in 1..Max(Len(a), Len(b)) |-> Coef(a, k) + Coef(b, k)]))

FNeg(a) == seq([k \in 1..Len(a) |-> 0 - a[k]])

FSub(a, b) == FAdd(a, FNeg(b))

RECURSIVE ConvSum(_, _, _, _)
ConvSum(a, b, k, i) ==
    IF i > Len(a) THEN 0
    ELSE Coef(a, i) * Coef(b, k + 1 - i) + ConvSum(a, b, k, i + 1)

FMul(a, b) ==
    IF a = <<>> \/ b = <<>> THEN <<>>
    ELSE Trim(seq([k \in 1..(Len(a) + Len(b) - 1) |-> ConvSum(a, b, k, 1)]))

RECURSIVE FSign(_)
FSign(p) ==
    IF p = <<>> THEN 0
    ELSE IF Head(p) > 0 THEN 1
    ELSE IF Head(p) < 0 THEN -1
    ELSE FSign(Tail(p))

FLe(a, b) == FSign(FSub(b, a)) >= 0

FLt(a, b) == FSign(FSub(b, a)) > 0

FMax(a, b) == IF FLt(a, b) THEN b ELSE a

EPSILON == <<0, 1>>

(* ------------- extended values: fractions, +inf, -inf, nan -------------- *)
Nan == [k |-> "nan", n |-> <<>>, d |-> <<>>]

PInf == [k |-> "inf", n |-> <<>>, d |-> <<>>]

NInf == [k |-> "ninf", n |-> <<>>, d |-> <<>>]

RECURSIVE LowZeros(_)
LowZeros(p) == IF p = <<>> \/ Head(p) # 0 THEN 0 ELSE 1 + LowZeros(Tail(p))

\* The fraction n/d (d # 0) in lowest terms of its integer content and of
\* its common power of EPSILON, with a positive denominator.
Frac(n, d) ==
    LET s == FSign(d)
        z == IF n = <<>> THEN LowZeros(d)
             ELSE IF LowZeros(n) < LowZeros(d) THEN LowZeros(n) ELSE LowZeros(d)
        g == Gcd(GcdSeq(n), GcdSeq(d))
        nn == seq([k \in 1..(Len(n) - z) |-> (s * n[k + z]) \div g])
        dd == seq([k \in 1..(Len(d) - z) |-> (s * d[k + z]) \div g])
    IN IF n = <<>> THEN [k |-> "fin", n |-> <<>>, d |-> <<1>>]
       ELSE [k |-> "fin", n |-> nn, d |-> dd]

Ext(a) == Frac(a, <<1>>)

XSign(x) ==
    CASE x.k = "inf" -> 1
      [] x.k = "ninf" -> -1
      [] x.k = "nan" -> 0
      [] OTHER -> FSign(x.n)

\* np.true_divide of two finite values, division by zero suppressed.
true_divide(a, b) ==
    IF b # <<>> THEN Frac(a, b)
    ELSE IF FSign(a) > 0 THEN PInf
    ELSE IF FSign(a) < 0 THEN NInf
    ELSE Nan

XNeg(x) ==
    CASE x.k = "inf" -> NInf
      [] x.k = "ninf" -> PInf
      [] x.k = "nan" -> Nan
      [] OTHER -> Frac(FNeg(x.n), x.d)

XAdd(x, y) ==
    IF x.k = "nan" \/ y.k = "nan" THEN Nan
    ELSE IF x.k = "fin" /\ y.k = "fin"
         THEN Frac(FAdd(FMul(x.n, y.d), FMul(y.n, x.d)), FMul(x.d, y.d))
    ELSE IF x.k = "fin" THEN y
    ELSE IF y.k = "fin" THEN x
    ELSE IF x.k = y.k THEN x
    ELSE Nan

XSub(x, y) == XAdd(x, XNeg(y))

XMul(x, y) ==
    IF x.k = "nan" \/ y.k = "nan" THEN Nan
    ELSE IF x.k = "fin" /\ y.k = "fin" THEN Frac(FMul(x.n, y.n), FMul(x.d, y.d))
    ELSE IF XSign(x) * XSign(y) > 0 THEN PInf
    ELSE IF XSign(x) * XSign(y) < 0 THEN NInf
    ELSE Nan

\* Comparisons of extended values; every comparison with nan is false.
XLt(x, y) ==
    /\ x.k # "nan" /\ y.k # "nan"
    /\ \/ x.k = "ninf" /\ y.k # "ninf"
       \/ y.k = "inf" /\ x.k # "inf"
       \/ x.k = "fin" /\ y.k = "fin" /\ FLt(FMul(x.n, y.d), FMul(y.n, x.d))

XEq(x, y) ==
    /\ x.k # "nan" /\ y.k # "nan"
    /\ \/ x.k = y.k /\ x.k # "fin"
       \/ x.k = "fin" /\ y.k = "fin" /\ FMul(x.n, y.d) = FMul(y.n, x.d)

XLe(x, y) == XLt(x, y) \/ XEq(x, y)

\* np.maximum(x, y): nan propagates.
XMaximum(x, y) ==
    IF x.k = "nan" \/ y.k = "nan" THEN Nan ELSE IF XLt(x, y) THEN y ELSE x

Zero == Ext(<<>>)

One == Ext(<<1>>)

(* ------------------------------ arrays ---------------------------------- *)
\* A 2-d array is [dtype, v]: v a sequence of rows, a row a sequence of
\* finite values, one per replicate column.
Arr(dtype, v) == [dtype |-> dtype, v |-> v]

NRows(a) == Len(a.v)

NCols(a) == Len(a.v[1])

\* ndarray.astype(float): a new array with the same values.
astype_float(a) == Arr("float", a.v)

\* Variant of scale that drops the factor (C3 must tell it from scale).
scale_without_factor(c, a) == a.v

\* The scalar-times-array product EPSILON * a[:, :].
scale(c, a) == seq([i \in 1..NRows(a) |-> seq([j \in 1..NCols(a) |-> FMul(c, a.v[i][j])])])

\* Variant of setcols that assigns every column (C10 must tell it from
\* setcols).
setcols_unmasked(a, mask, b) == Arr(a.dtype, b)

\* a[:, mask] = b[:, mask] for a boolean column mask.
setcols(a, mask, b) ==
    Arr(a.dtype,
        seq([i \in 1..NRows(a) |->
            seq([j \in 1..NCols(a) |-> IF mask[j] THEN b[i][j] ELSE a.v[i][j]])]))

(* ------------------------- add_pseudo_points ---------------------------- *)
\* The heap is a sequence of arrays and a reference is an index into it.
\* fps and tps are references to the caller's arrays; astype allocates new
\* arrays, to which the local names are rebound before the item assignments.
add_pseudo_points_ref(heap, fps, tps) ==
    LET cols == 1..NCols(heap[fps])
        fps_fix == [j \in cols |-> heap[fps].v[NRows(heap[fps])][j] = <<>>]
        tps_fix == [j \in cols |-> heap[tps].v[NRows(heap[tps])][j] = <<>>]
        any == \E j \in cols : fps_fix[j] \/ tps_fix[j]
        h1 == Append(Append(heap, astype_float(heap[fps])), astype_float(heap[tps]))
        fps1 == Len(heap) + 1
        tps1 == Len(heap) + 2
        h2 == [h1 EXCEPT ![fps1] = setcols(@, fps_fix, scale(EPSILON, h1[tps1]))]
        h3 == [h2 EXCEPT ![tps1] = setcols(@, tps_fix, scale(EPSILON, h2[fps1]))]
    IN IF any THEN [heap |-> h3, fps |-> fps1, tps |-> tps1]
       ELSE [heap |-> heap, fps |-> fps, tps |-> tps]

\* add_pseudo_points as a function of the values of its two arguments.
add_pseudo_points(fps, tps) ==
    LET r == add_pseudo_points_ref(<<fps, tps>>, 1, 2)
    IN [fps |-> r.heap[r.fps], tps |-> r.heap[r.tps]]

(* --------------------------- numpy helpers ------------------------------ *)
\* np.argsort(s, kind='mergesort'): the stable ascending order of 1..Len(s).
argsort_mergesort(s) ==
    LET rank(i) == Cardinality({j \in 1..Len(s) :
                        s[j] < s[i] \/ (s[j] = s[i] /\ j < i)}) + 1
    IN seq([r \in 1..Len(s) |-> CHOOSE i \in 1..Len(s) : rank(i) = r])

\* Variant of reversed that leaves the ascending order (C9 must tell it from
\* reversed).
not_reversed(s) == s

\* s[::-1]
reversed(s) == seq([i \in 1..Len(s) |-> s[Len(s) + 1 - i]])

\* np.where(np.diff(s))[0]: the positions whose successor differs.
RECURSIVE diff_nonzero(_, _)
diff_nonzero(s, i) ==
    IF i >= Len(s) THEN <<>>
    ELSE (IF s[i + 1] # s[i] THEN <<i>> ELSE <<>>) \o diff_nonzero(s, i + 1)

\* np.cumsum of a sequence of integers.
RECURSIVE cumsum_int(_)
cumsum_int(s) ==
    IF s = <<>> THEN <<>>
    ELSE LET c == cumsum_int(SubSeq(s, 1, Len(s) - 1))
         IN Append(c, (IF c = <<>> THEN 0 ELSE c[Len(c)]) + s[Len(s)])

\* np.cumsum(m, axis=0) of a sequence of rows of finite values.
RECURSIVE cumsum_rows(_)
cumsum_rows(m) ==
    IF m = <<>> THEN <<>>
    ELSE LET c == cumsum_rows(SubSeq(m, 1, Len(m) - 1))
             last == m[Len(m)]
         IN Append(c, seq([j \in 1..Len(last) |->
                         IF c = <<>> THEN last[j] ELSE FAdd(c[Len(c)][j], last[j])]))

\* np.sum(rows, axis=0) over the rows selected by keep.
RECURSIVE sum_rows(_, _, _)
sum_rows(m, keep, ncols) ==
    IF m = <<>> THEN seq([j \in 1..ncols |-> <<>>])
    ELSE LET rest == sum_rows(Tail(m), Tail(keep), ncols)
         IN seq([j \in 1..ncols |-> IF Head(keep) THEN FAdd(Head(m)[j], rest[j]) ELSE rest[j]])

\* np.maximum.accumulate(m, axis=0)
RECURSIVE maximum_accumulate(_)
maximum_accumulate(m) ==
    IF m = <<>> THEN <<>>
    ELSE LET c == maximum_accumulate(SubSeq(m, 1, Len(m) - 1))
             last == m[Len(m)]
         IN Append(c, seq([j \in 1..Len(last) |->
                         IF c = <<>> THEN last[j] ELSE FMax(c[Len(c)][j], last[j])]))

\* np.all(np.diff(m, axis=0) >= 0.0)
nondecreasing(m) ==
    \A i \in 1..(Len(m) - 1) : \A j \in 1..Len(m[i]) : FLe(m[i][j], m[i + 1][j])

BoolInt(b) == IF b THEN 1 ELSE 0

(* -------------------------- _binary_clf_curve --------------------------- *)
\* Every stage below receives the values of the earlier stages as
\* parameters, in the order of the statements of the function.
None == [none |-> TRUE, w |-> <<>>]

Weights(w) == [none |-> FALSE, w |-> w]

Inf == [inf |-> TRUE, v |-> 0]

Thr(v) == [inf |-> FALSE, v |-> v]

Failure(line) == [failed |-> line, fps |-> Arr("float", <<>>),
                  tps |-> Arr("float", <<>>), thresholds |-> <<>>]

\* s[idx]: the elements of s at the positions idx.
take(s, idx) == seq([t \in 1..Len(idx) |-> s[idx[t]]])

\* Variant of threshold_idxs that keeps every position, tied scores included
\* (C1 must tell it from threshold_idxs).
threshold_idxs_with_ties(score) == seq([i \in 1..Len(score) |-> i])

\* The positions of the distinct score values and of the end of the curve.
threshold_idxs(score) == diff_nonzero(score, 1) \o <<Len(score)>>

\* Variant of counts_unweighted whose fps misses the 1 that turns the
\* 0-based position into a count (C8 must tell it from counts_unweighted).
counts_unweighted_off_by_one(true, idxs) ==
    LET tps == take(cumsum_int(seq([i \in 1..Len(true) |-> BoolInt(true[i])])), idxs)
        fps == seq([t \in 1..Len(idxs) |-> (idxs[t] - 1) - tps[t]])
    IN [failed |-> "",
        fps |-> Arr("int", seq([t \in 1..Len(idxs) |-> <<Flt(fps[t])>>])),
        tps |-> Arr("int", seq([t \in 1..Len(idxs) |-> <<Flt(tps[t])>>]))]

\* sample_weight is None: counts of samples, as one column.
counts_unweighted(true, idxs) ==
    LET tps == take(cumsum_int(seq([i \in 1..Len(true) |-> BoolInt(true[i])])), idxs)
        fps == seq([t \in 1..Len(idxs) |-> 1 + (idxs[t] - 1) - tps[t]])
        ok == /\ fps[Len(idxs)] = Cardinality({i \in 1..Len(true) : ~true[i]})
              /\ tps[Len(idxs)] = Cardinality({i \in 1..Len(true) : true[i]})
    IN [failed |-> IF ok THEN "" ELSE "L127",
        fps |-> Arr("int", seq([t \in 1..Len(idxs) |-> <<Flt(fps[t])>>])),
        tps |-> Arr("int", seq([t \in 1..Len(idxs) |-> <<Flt(tps[t])>>]))]

\* Variant of label_times_weight that counts every sample as positive (C4
\* must tell it from label_times_weight).
label_times_weight_all(true, weight) == weight

\* y_true[:, None] * weight
label_times_weight(true, weight) ==
    seq([i \in 1..Len(weight) |-> seq([j \in 1..Len(weight[i]) |->
            FMul(Flt(BoolInt(true[i])), weight[i][j])])])

\* Variant of minus with the operands exchanged (C2 must tell it from minus).
minus_exchanged(a, b) ==
    seq([i \in 1..Len(a) |-> seq([j \in 1..Len(a[i]) |-> FSub(b[i][j], a[i][j])])])

\* a - b, elementwise
minus(a, b) ==
    seq([i \in 1..Len(a) |-> seq([j \in 1..Len(a[i]) |-> FSub(a[i][j], b[i][j])])])

\* sample_weight is a matrix: weight is sample_weight[desc_score_indices, :].
counts_weighted(true, weight, idxs) ==
    LET tps == take(cumsum_rows(label_times_weight(true, weight)), idxs)
        fps == minus(take(cumsum_rows(weight), idxs), tps)
        nc == Len(weight[1])
        ok == /\ fps[Len(idxs)]
                    = sum_rows(weight, seq([i \in 1..Len(true) |-> ~true[i]]), nc)
              /\ tps[Len(idxs)] = sum_rows(weight, true, nc)
    IN [failed |-> IF ok THEN "" ELSE "L140",
        fps |-> Arr("float", fps), tps |-> Arr("float", tps)]

\* np.r_[zero_vec, a]: the (0, 0) coordinate put in front.
with_zero_row(a) ==
    Arr(a.dtype, <<seq([j \in 1..NCols(a) |-> <<>>])>> \o a.v)

\* The result of add_pseudo_points checked, the decreases of fps removed and
\* the final assertion.
clean_up(pp, thresholds) ==
    LET last == NRows(pp.fps)
        fps == Arr(pp.fps.dtype, maximum_accumulate(pp.fps.v))
    IN IF ~(\A j \in 1..NCols(pp.fps) : /\ FSign(pp.fps.v[last][j]) > 0
                                        /\ FSign(pp.tps.v[last][j]) > 0)
       THEN Failure("L150")
       ELSE IF pp.fps.dtype # pp.tps.dtype THEN Failure("L151")
       ELSE IF ~(nondecreasing(fps.v) /\ nondecreasing(pp.tps.v)) THEN Failure("L155")
       ELSE [failed |-> "", fps |-> fps, tps |-> pp.tps, thresholds |-> thresholds]

curve_of_counts(c, thresholds) ==
    IF c.failed # "" THEN Failure(c.failed)
    ELSE clean_up(add_pseudo_points(with_zero_row(c.fps), with_zero_row(c.tps)),
                  thresholds)

curve_of_sorted(true, score, sw, desc_score_indices, idxs) ==
    curve_of_counts(
        IF sw.none THEN counts_unweighted(true, idxs)
        ELSE counts_weighted(true,
                 seq([i \in 1..Len(true) |->
                        seq([j \in 1..Len(sw.w[1]) |->
                               Flt(sw.w[desc_score_indices[i]][j])])]),
                 idxs),
        <<Inf>> \o seq([t \in 1..Len(idxs) |-> Thr(score[idxs[t]])]))

curve_of_order(yt, ys, sw, desc_score_indices) ==
    curve_of_sorted(take(yt, desc_score_indices), take(ys, desc_score_indices), sw,
                    desc_score_indices,
                    threshold_idxs(take(ys, desc_score_indices)))

\* failed names the first assertion that fails ("" when none does).
_binary_clf_curve(yt, ys, sw) ==
    curve_of_order(yt, ys, sw, reversed(argsort_mergesort(ys)))

(* ------------------------------ derivers -------------------------------- *)
XFailure(line) == [failed |-> line, x |-> <<>>, y |-> <<>>, thresholds |-> <<>>]

\* Variant of divide_by_last that divides by the row after the sentinel (C5
\* must tell it from divide_by_last).
divide_by_second(m) ==
    seq([i \in 1..Len(m) |->
           seq([j \in 1..Len(m[i]) |-> true_divide(m[i][j], m[2][j])])])

\* np.true_divide(m, m[-1:, :]): every row divided by the final row.
divide_by_last(m) ==
    seq([i \in 1..Len(m) |->
           seq([j \in 1..Len(m[i]) |-> true_divide(m[i][j], m[Len(m)][j])])])

\* Variant of set_first_to_second without the assignment (C6 must tell it
\* from set_first_to_second).
first_row_kept(m) == m

\* m[0, :] = m[1, :]
set_first_to_second(m) == seq([i \in 1..Len(m) |-> IF i = 1 THEN m[2] ELSE m[i]])

\* np.all(m <= 1.0)
all_le_one(m) == \A i \in 1..Len(m) : \A j \in 1..Len(m[i]) : XLe(m[i][j], One)

\* np.all(0.0 <= m)
all_ge_zero(m) == \A i \in 1..Len(m) : \A j \in 1..Len(m[i]) : XLe(Zero, m[i][j])

\* x is fpr and y is tpr.
roc_of_counts(c) ==
    IF c.failed # "" THEN XFailure(c.failed)
    ELSE [failed |-> "", x |-> divide_by_last(c.fps.v), y |-> divide_by_last(c.tps.v),
          thresholds |-> c.thresholds]

roc_curve(yt, ys, sw) == roc_of_counts(_binary_clf_curve(yt, ys, sw))

\* tps / (tps + fps), division by zero suppressed
precision_of(fps, tps) ==
    seq([i \in 1..Len(tps) |-> seq([j \in 1..Len(tps[i]) |->
            true_divide(tps[i][j], FAdd(tps[i][j], fps[i][j]))])])

recall_precision_checked(recall, precision, thresholds) ==
    IF ~(all_ge_zero(precision) /\ all_le_one(precision)) THEN XFailure("L236")
    ELSE [failed |-> "", x |-> recall, y |-> precision, thresholds |-> thresholds]

\* x is recall and y is precision.
recall_precision_of_counts(c) ==
    IF c.failed # "" THEN XFailure(c.failed)
    ELSE recall_precision_checked(divide_by_last(c.tps.v),
             set_first_to_second(precision_of(c.fps.v, c.tps.v)), c.thresholds)

recall_precision_curve(yt, ys, sw) ==
    recall_precision_of_counts(_binary_clf_curve(yt, ys, sw))

PrgFailure(line) ==
    [failed |-> line, x |-> <<>>, y |-> <<>>, thresholds |-> <<>>, rec_gain_raw |-> <<>>]

\* 1.0 - np.true_divide(n_pos * a, n_neg * tps), division by zero suppressed;
\* n_neg and n_pos are the final rows of fps and tps.
gain(a, n_neg, n_pos, tps) ==
    seq([i \in 1..Len(tps) |-> seq([j \in 1..Len(tps[i]) |->
            XSub(One, true_divide(FMul(n_pos[j], a[i][j]), FMul(n_neg[j], tps[i][j])))])])

\* Variant of false_negatives with the operands exchanged (C7 must tell it
\* from false_negatives).
false_negatives_exchanged(n_pos, tps) ==
    seq([i \in 1..Len(tps) |-> seq([j \in 1..Len(tps[i]) |-> FSub(tps[i][j], n_pos[j])])])

\* n_pos - tps
false_negatives(n_pos, tps) ==
    seq([i \in 1..Len(tps) |-> seq([j \in 1..Len(tps[i]) |-> FSub(n_pos[j], tps[i][j])])])

\* np.any(np.diff(m, axis=0) < 0.0)
any_decrease(m) ==
    \E i \in 1..(Len(m) - 1) : \E j \in 1..Len(m[i]) :
        XLt(XSub(m[i + 1][j], m[i][j]), Zero)

\* np.maximum(0.0, m)
clip_at_zero(m) ==
    seq([i \in 1..Len(m) |-> seq([j \in 1..Len(m[i]) |-> XMaximum(Zero, m[i][j])])])

prg_clipped(rec_gain_raw, rec_gain, prec_gain, thresholds) ==
    IF ~all_le_one(rec_gain) THEN PrgFailure("L280")
    ELSE IF ~(\A i \in 1..Len(rec_gain) : \A j \in 1..Len(rec_gain[i]) :
                 XEq(rec_gain[i][j], Zero) \/ XLe(prec_gain[i][j], One))
         THEN PrgFailure("L281")
    ELSE [failed |-> "", x |-> rec_gain, y |-> prec_gain, thresholds |-> thresholds,
          rec_gain_raw |-> rec_gain_raw]

prg_checked(rec_gain, prec_gain, thresholds) ==
    IF any_decrease(rec_gain) THEN PrgFailure("L278")
    ELSE prg_clipped(rec_gain, clip_at_zero(rec_gain), prec_gain, thresholds)

prg_of_totals(fps, tps, n_neg, n_pos, thresholds) ==
    prg_checked(gain(false_negatives(n_pos, tps), n_neg, n_pos, tps),
                set_first_to_second(gain(fps, n_neg, n_pos, tps)), thresholds)

\* x is rec_gain and y is prec_gain; rec_gain_raw is rec_gain before the
\* clipping at 0.
prg_of_counts(c) ==
    IF c.failed # "" THEN PrgFailure(c.failed)
    ELSE prg_of_totals(c.fps.v, c.tps.v, c.fps.v[NRows(c.fps)], c.tps.v[NRows(c.tps)],
                       c.thresholds)

prg_curve(yt, ys, sw) == prg_of_counts(_binary_clf_curve(yt, ys, sw))

\* np.trapz(y_curve, x_curve, axis=0): sum of diff(x) * (y[1:] + y[:-1]) / 2.
Half == Frac(<<1>>, <<2>>)

RECURSIVE trapz_col(_, _, _, _)
trapz_col(x, y, j, i) ==
    IF i >= Len(x) THEN Zero
    ELSE XAdd(XMul(XMul(XSub(x[i + 1][j], x[i][j]), XAdd(y[i + 1][j], y[i][j])), Half),
              trapz_col(x, y, j, i + 1))

auc_trapz(x_curve, y_curve) ==
    seq([j \in 1..Len(x_curve[1]) |-> trapz_col(x_curve, y_curve, j, 1)])

(* --------------------------- the state machine -------------------------- *)
\* Valid inputs of the curve functions: non-empty boolean labels, finite
\* scores of the same length, and either no weights or a matrix of strictly
\* positive weights with one row per sample and at least one column.
WeightMatrices(n) ==
    UNION {[1..n -> [1..c -> 1..MaxW]] : c \in 1..MaxCols}

Init ==
    /\ pc = "ready"
    /\ res = <<>>
    /\ mem = <<>>
    /\ \E n \in 1..MaxN :
          /\ y_true \in [1..n -> BOOLEAN]
          /\ y_score \in [1..n -> 0..MaxScore]
          /\ sample_weight \in {None} \cup {Weights(w) : w \in WeightMatrices(n)}

Call_binary_clf_curve ==
    /\ pc = "ready"
    /\ pc' = "_binary_clf_curve"
    /\ res' = _binary_clf_curve(y_true, y_score, sample_weight)
    /\ UNCHANGED <<y_true, y_score, sample_weight, mem>>

Call_roc_curve ==
    /\ pc = "ready"
    /\ pc' = "roc_curve"
    /\ res' = roc_curve(y_true, y_score, sample_weight)
    /\ UNCHANGED <<y_true, y_score, sample_weight, mem>>

Call_recall_precision_curve ==
    /\ pc = "ready"
    /\ pc' = "recall_precision_curve"
    /\ res' = recall_precision_curve(y_true, y_score, sample_weight)
    /\ UNCHANGED <<y_true, y_score, sample_weight, mem>>

Call_prg_curve ==
    /\ pc = "ready"
    /\ pc' = "prg_curve"
    /\ res' = prg_curve(y_true, y_score, sample_weight)
    /\ UNCHANGED <<y_true, y_score, sample_weight, mem>>

\* The caller integrates the ROC curve it has just computed.
Call_auc_trapz ==
    /\ pc = "roc_curve"
    /\ res.failed = ""
    /\ pc' = "auc_trapz"
    /\ res' = [x_curve |-> res.x, y_curve |-> res.y, auc |-> auc_trapz(res.x, res.y)]
    /\ UNCHANGED <<y_true, y_score, sample_weight, mem>>

Next ==
    \/ Call_binary_clf_curve
    \/ Call_roc_curve
    \/ Call_recall_precision_curve
    \/ Call_prg_curve
    \/ Call_auc_trapz

Spec == Init /\ [][Next]_vars

\* add_pseudo_points called on its own: the caller holds two same-shape
\* arrays at references 1 and 2 of the heap.
CountMatrices(r, c) == [1..r -> [1..c -> {Flt(k) : k \in 0..MaxCount}]]

InitPseudo ==
    /\ pc = "ready"
    /\ res = <<>>
    /\ y_true = <<>>
    /\ y_score = <<>>
    /\ sample_weight = None
    /\ \E r \in 1..MaxRows, c \in 1..MaxCols, dt \in {"int", "float"} :
          \E f \in CountMatrices(r, c), t \in CountMatrices(r, c) :
             mem = <<Arr(dt, f), Arr(dt, t)>>

\* res records the references returned and the values the arguments had
\* when the call was made.
Call_add_pseudo_points ==
    /\ pc = "ready"
    /\ LET r == add_pseudo_points_ref(mem, 1, 2)
       IN /\ mem' = r.heap
          /\ res' = [fps |-> r.fps, tps |-> r.tps, arg_fps |-> mem[1], arg_tps |-> mem[2]]
    /\ pc' = "add_pseudo_points"
    /\ UNCHANGED <<y_true, y_score, sample_weight>>

NextPseudo == Call_add_pseudo_points

SpecPseudo == InitPseudo /\ [][NextPseudo]_vars

(* ------------------------- vocabulary of the claims --------------------- *)
Samples == 1..Len(y_true)

Columns == 1..(IF sample_weight.none THEN 1 ELSE Len(sample_weight.w[1]))

\* The weight of sample i in replicate column j (1 without a weight matrix).
WeightOf(i, j) == IF sample_weight.none THEN 1 ELSE sample_weight.w[i][j]

RECURSIVE WeightSum(_, _)
WeightSum(S, j) ==
    IF S = {} THEN 0
    ELSE LET i == CHOOSE k \in S : TRUE IN WeightOf(i, j) + WeightSum(S \ {i}, j)

Positives == {i \in Samples : y_true[i]}

Negatives == {i \in Samples : ~y_true[i]}

BothClasses == Positives # {} /\ Negatives # {}

DistinctScores == {y_score[i] : i \in Samples}

\* The weighted count of the samples of S scored at or above the threshold v.
CountAtOrAbove(S, v, j) == WeightSum({i \in S : y_score[i] >= v}, j)

Rows(m) == 1..Len(m)

IsTimesEpsilon(a, b) ==
    \A i \in Rows(a) : \A j \in 1..Len(a[i]) : a[i][j] = FMul(EPSILON, b[i][j])

LastRowPositive(m) == \A j \in 1..Len(m[Len(m)]) : FSign(m[Len(m)][j]) > 0

NonDecreasingColumns(m) ==
    \A i \in Rows(m), k \in Rows(m) : \A j \in 1..Len(m[i]) :
        i < k => FSign(FSub(m[k][j], m[i][j])) >= 0

InUnitInterval(v) == v.k = "fin" /\ XLe(Zero, v) /\ XLe(v, One)

PerfectSeparator ==
    /\ BothClasses
    /\ \A i \in Positives, k \in Negatives : y_score[i] > y_score[k]

(* -------------------------------- claims -------------------------------- *)
\* C1: with both classes present, _binary_clf_curve returns the sentinel row
\* (threshold +infinity, zero counts) followed by one row per distinct score
\* in strictly decreasing order, and in every row and column tps (fps) is the
\* summed weight of the positive (negative) samples scored at or above the
\* row's threshold.
C1_RowsPerDistinctScore ==
    (pc = "_binary_clf_curve" /\ BothClasses) =>
        /\ res.failed = ""
        /\ Len(res.thresholds) = 1 + Cardinality(DistinctScores)
        /\ Len(res.fps.v) = Len(res.thresholds)
        /\ Len(res.tps.v) = Len(res.thresholds)
        /\ res.thresholds[1] = Inf
        /\ \A j \in Columns : res.fps.v[1][j] = <<>> /\ res.tps.v[1][j] = <<>>
        /\ \A t \in 2..Len(res.thresholds) :
              /\ ~res.thresholds[t].inf
              /\ res.thresholds[t].v \in DistinctScores
              /\ t > 2 => res.thresholds[t - 1].v > res.thresholds[t].v
              /\ \A j \in Columns :
                    /\ res.tps.v[t][j]
                          = Flt(CountAtOrAbove(Positives, res.thresholds[t].v, j))
                    /\ res.fps.v[t][j]
                          = Flt(CountAtOrAbove(Negatives, res.thresholds[t].v, j))

\* A positive and a negative sample tie, a third sample scores lower, and
\* the two columns weigh the tied samples differently.
C1_Witness ==
    /\ pc = "_binary_clf_curve"
    /\ Len(y_true) = 3
    /\ \E i \in Samples, k \in Samples, l \in Samples :
          /\ y_true[i] /\ ~y_true[k] /\ y_score[i] = y_score[k]
          /\ y_score[l] < y_score[i]
    /\ ~sample_weight.none
    /\ Len(sample_weight.w[1]) = 2
    /\ sample_weight.w[1] = <<1, 2>>
    /\ Len(res.thresholds) = 3

\* C2: for every valid input, with or without weights and with one class or
\* two, no assertion fails and fps and tps are non-decreasing down every
\* column.
C2_Monotone ==
    pc = "_binary_clf_curve" =>
        /\ res.failed = ""
        /\ NonDecreasingColumns(res.fps.v)
        /\ NonDecreasingColumns(res.tps.v)

C2_Witness ==
    /\ pc = "_binary_clf_curve"
    /\ ~BothClasses
    /\ ~sample_weight.none
    /\ Len(res.fps.v) = 4
    /\ \E j \in Columns : res.fps.v[2][j] # res.fps.v[4][j]

\* C3: with a single class present no assertion fails, the counts of the
\* absent class are EPSILON times the counts of the present class in every
\* row, and the final row of both matrices is strictly positive.
C3_SingleClass ==
    (pc = "_binary_clf_curve" /\ ~BothClasses) =>
        /\ res.failed = ""
        /\ Negatives = {} => IsTimesEpsilon(res.fps.v, res.tps.v)
        /\ Positives = {} => IsTimesEpsilon(res.tps.v, res.fps.v)
        /\ LastRowPositive(res.fps.v)
        /\ LastRowPositive(res.tps.v)

C3_Witness ==
    /\ pc = "_binary_clf_curve"
    /\ Negatives = {}
    /\ Len(y_true) = 3
    /\ ~sample_weight.none
    /\ Len(res.thresholds) = 3
    /\ res.fps.v[3] = <<<<0, 3>>, <<0, 5>>>>

\* C4 as stated: for every valid input the final row of fps is the total
\* negative weight, the final row of tps is the total positive weight, and
\* both are strictly positive.
C4_AsStated ==
    pc = "_binary_clf_curve" =>
        /\ res.failed = ""
        /\ \A j \in Columns :
              /\ res.fps.v[Len(res.fps.v)][j] = Flt(WeightSum(Negatives, j))
              /\ res.tps.v[Len(res.tps.v)][j] = Flt(WeightSum(Positives, j))
        /\ LastRowPositive(res.fps.v)
        /\ LastRowPositive(res.tps.v)

\* C4 as amended: the final rows are strictly positive; the final row of the
\* counts of a class that is present is the total weight of that class, and
\* the final row of the counts of an absent class is EPSILON times the total
\* weight of the other class.
C4_FinalRow ==
    pc = "_binary_clf_curve" =>
        /\ res.failed = ""
        /\ LastRowPositive(res.fps.v)
        /\ LastRowPositive(res.tps.v)
        /\ \A j \in Columns :
              /\ Negatives # {} =>
                    res.fps.v[Len(res.fps.v)][j] = Flt(WeightSum(Negatives, j))
              /\ Positives # {} =>
                    res.tps.v[Len(res.tps.v)][j] = Flt(WeightSum(Positives, j))
              /\ Negatives = {} =>
                    res.fps.v[Len(res.fps.v)][j]
                       = FMul(EPSILON, Flt(WeightSum(Positives, j)))
              /\ Positives = {} =>
                    res.tps.v[Len(res.tps.v)][j]
                       = FMul(EPSILON, Flt(WeightSum(Negatives, j)))

C4_Witness ==
    /\ pc = "_binary_clf_curve"
    /\ Positives = {}
    /\ ~sample_weight.none
    /\ Len(y_true) = 2
    /\ res.fps.v[Len(res.fps.v)] = <<<<3>>, <<4>>>>
    /\ res.tps.v[Len(res.tps.v)] = <<<<0, 3>>, <<0, 4>>>>

\* C5: for every valid input, single-class inputs included, roc_curve
\* returns fpr and tpr whose first row is exactly 0, whose last row is
\* exactly 1 and whose entries all lie in [0, 1], in every column.
C5_RocBoundary ==
    pc = "roc_curve" =>
        /\ res.failed = ""
        /\ \A m \in {res.x, res.y} :
              /\ \A j \in Columns : m[1][j] = Zero /\ m[Len(m)][j] = One
              /\ \A i \in Rows(m) : \A j \in Columns : InUnitInterval(m[i][j])

C5_Witness ==
    /\ pc = "roc_curve"
    /\ Positives = {}
    /\ ~sample_weight.none
    /\ Len(res.x) = 4
    /\ \E j \in Columns : res.y[2][j] = Frac(<<1>>, <<4>>)

\* C6: for every valid input recall_precision_curve fails no assertion, the
\* denominator tps + fps is zero at the sentinel row and at no other row,
\* the returned precision of the sentinel row is that of the next row, and
\* every returned precision is a number in [0, 1].
C6_Precision ==
    pc = "recall_precision_curve" =>
        /\ res.failed = ""
        /\ \A j \in Columns : res.y[1][j] = res.y[2][j]
        /\ \A i \in Rows(res.y) : \A j \in Columns : InUnitInterval(res.y[i][j])
        /\ LET c == _binary_clf_curve(y_true, y_score, sample_weight)
           IN \A i \in Rows(c.tps.v) : \A j \in Columns :
                 (FAdd(c.tps.v[i][j], c.fps.v[i][j]) = <<>>) <=> (i = 1)

\* The highest score belongs to a negative sample alone, so the precision
\* copied into the sentinel row is 0.
C6_Witness ==
    /\ pc = "recall_precision_curve"
    /\ BothClasses
    /\ Len(res.y) = 4
    /\ \A j \in Columns : res.y[1][j] = Zero
    /\ \E j \in Columns : res.y[4][j] = Frac(<<2>>, <<5>>)

\* C7: for every valid input prg_curve fails no assertion, recall_gain
\* before clipping never decreases down a column, every returned
\* recall_gain lies in [0, 1], and precision_gain is at most 1 wherever the
\* returned recall_gain is not 0.
C7_Gains ==
    pc = "prg_curve" =>
        /\ res.failed = ""
        /\ \A i \in Rows(res.rec_gain_raw), k \in Rows(res.rec_gain_raw) :
              \A j \in Columns :
                 i < k => XLe(res.rec_gain_raw[i][j], res.rec_gain_raw[k][j])
        /\ \A i \in Rows(res.x) : \A j \in Columns :
              /\ InUnitInterval(res.x[i][j])
              /\ res.x[i][j] # Zero => XLe(res.y[i][j], One)

\* Some recall_gain is clipped from a negative number and some is strictly
\* between 0 and 1.
C7_Witness ==
    /\ pc = "prg_curve"
    /\ \E i \in Rows(res.x) : \E j \in Columns :
          res.rec_gain_raw[i][j].k = "fin" /\ XLt(res.rec_gain_raw[i][j], Zero)
    /\ \E i \in Rows(res.x) : \E j \in Columns :
          XLt(Zero, res.x[i][j]) /\ XLt(res.x[i][j], One)

\* C8: without a weight matrix _binary_clf_curve returns the fps, tps and
\* thresholds (same rows, same values) that it returns for one explicit
\* column of weights that are all 1.
C8_UnitWeights ==
    (pc = "_binary_clf_curve" /\ sample_weight.none) =>
        LET ones == _binary_clf_curve(y_true, y_score,
                        Weights([i \in Samples |-> <<1>>]))
        IN /\ res.failed = "" /\ ones.failed = ""
           /\ res.fps.v = ones.fps.v
           /\ res.tps.v = ones.tps.v
           /\ res.thresholds = ones.thresholds

C8_Witness ==
    /\ pc = "_binary_clf_curve"
    /\ sample_weight.none
    /\ BothClasses
    /\ Len(y_true) = 3
    /\ Len(res.thresholds) = 3
    /\ res.fps.v[2] = <<<<1>>>> /\ res.tps.v[2] = <<<<1>>>>

\* C9: for a perfect separator (both classes present, every positive sample
\* scored strictly above every negative one) and any valid weights, the
\* trapezoidal area under the curve of roc_curve is 1 in every column.
C9_PerfectSeparatorAuc ==
    (pc = "auc_trapz" /\ PerfectSeparator) =>
        \A j \in Columns : res.auc[j] = One

C9_Witness ==
    /\ pc = "auc_trapz"
    /\ PerfectSeparator
    /\ ~sample_weight.none
    /\ Len(res.x_curve) = 4
    /\ res.auc = <<One, One>>

\* C10: add_pseudo_points treats every column on its own.  A column whose
\* final fps and final tps are both non-zero keeps its values in both
\* matrices; a column whose final fps is 0 and final tps is not has its fps
\* replaced by EPSILON * tps and keeps its tps; a column whose final tps is 0
\* and final fps is not has its tps replaced by EPSILON * fps and keeps its
\* fps; no column is changed in both matrices unless both its totals were
\* zero; and the arrays of the caller are as they were.
C10_ColumnsIndependent ==
    pc = "add_pseudo_points" =>
        LET fps == res.arg_fps.v
            tps == res.arg_tps.v
            out_fps == mem[res.fps].v
            out_tps == mem[res.tps].v
            last == Len(fps)
        IN /\ mem[1] = res.arg_fps
           /\ mem[2] = res.arg_tps
           /\ \A j \in 1..Len(fps[1]) :
                 /\ (fps[last][j] # <<>> /\ tps[last][j] # <<>>) =>
                       \A i \in Rows(fps) :
                          out_fps[i][j] = fps[i][j] /\ out_tps[i][j] = tps[i][j]
                 /\ (fps[last][j] = <<>> /\ tps[last][j] # <<>>) =>
                       \A i \in Rows(fps) :
                          /\ out_fps[i][j] = FMul(EPSILON, tps[i][j])
                          /\ out_tps[i][j] = tps[i][j]
                 /\ (tps[last][j] = <<>> /\ fps[last][j] # <<>>) =>
                       \A i \in Rows(fps) :
                          /\ out_tps[i][j] = FMul(EPSILON, fps[i][j])
                          /\ out_fps[i][j] = fps[i][j]
                 /\ (/\ \E i \in Rows(fps) : out_fps[i][j] # fps[i][j]
                     /\ \E i \in Rows(fps) : out_tps[i][j] # tps[i][j]) =>
                       (fps[last][j] = <<>> /\ tps[last][j] = <<>>)

\* One column has no negatives, the other is healthy, and the corrector has
\* replaced the fps of the first.
C10_Witness ==
    /\ pc = "add_pseudo_points"
    /\ res.arg_fps.dtype = "float"
    /\ res.arg_fps.v = <<<<<<>>, <<1>>>>, <<<<>>, <<2>>>>>>
    /\ res.arg_tps.v = <<<<<<1>>, <<>>>>, <<<<2>>, <<1>>>>>>
    /\ mem[res.fps].v = <<<<<<0, 1>>, <<1>>>>, <<<<0, 2>>, <<2>>>>>>
====
